---- MODULE Spec2Model ----
(***************************************************************************)
(* A model of pysteps.nowcasts.linda (src/pysteps/nowcasts/linda.py): the  *)
(* kernel builders, the masked convolution, the window weights, the AR     *)
(* iteration, the AR and kernel fitters and the forecast entry point.      *)
(*                                                                         *)
(* Every function of the module is modelled as a call: pc is the position  *)
(* of the running call, args its arguments, ret what it returned or        *)
(* raised.  input_fields is the rolling history buffer _iterate_ar_model   *)
(* is applied to, x the current iterate of the optimizer.                  *)
(*                                                                         *)
(* Real numbers are exact rationals <<n, d>> with d > 0; the non-finite    *)
(* floats are <<0, 0>> (nan), <<1, 0>> (+inf) and <<-1, 0>> (-inf).        *)
(***************************************************************************)
EXTENDS Integers, Sequences, FiniteSets, TLC

VARIABLES pc, args, ret, input_fields, x

vars == <<pc, args, ret, input_fields, x>>

\* The value of a variable a specification does not use.
None == [kind |-> "None"]

----------------------------------------------------------------------------
(* Floating point numbers as exact rationals, with IEEE non-finite values. *)

Abs(a) == IF a < 0 THEN -a ELSE a

Sign(a) == IF a < 0 THEN -1 ELSE IF a > 0 THEN 1 ELSE 0

RECURSIVE Gcd(_, _)
Gcd(a, b) == IF b = 0 THEN a ELSE Gcd(b, a % b)

NaN == <<0, 0>>

Inf == <<1, 0>>

\* The rational n/d in lowest terms; n/0 is nan, +inf or -inf as in IEEE.
Rat(n, d) ==
    IF d = 0 THEN <<Sign(n), 0>>
    ELSE LET g == Gcd(Abs(n), Abs(d))
         IN  <<Sign(d) * (n \div g), Abs(d) \div g>>

IsFinite(a) == a[2] # 0

IsNaN(a) == a = NaN

RAdd(a, b) ==
    IF IsFinite(a) /\ IsFinite(b) THEN Rat(a[1] * b[2] + b[1] * a[2], a[2] * b[2])
    ELSE IF IsNaN(a) \/ IsNaN(b) THEN NaN
    ELSE IF IsFinite(a) THEN b
    ELSE IF IsFinite(b) THEN a
    ELSE IF a = b THEN a ELSE NaN

RNeg(a) == <<-a[1], a[2]>>

RSub(a, b) == RAdd(a, RNeg(b))

RMul(a, b) ==
    IF IsFinite(a) /\ IsFinite(b) THEN Rat(a[1] * b[1], a[2] * b[2])
    ELSE IF IsNaN(a) \/ IsNaN(b) \/ a[1] = 0 \/ b[1] = 0 THEN NaN
    ELSE <<Sign(a[1]) * Sign(b[1]), 0>>

RDiv(a, b) ==
    IF IsFinite(a) /\ IsFinite(b) THEN Rat(a[1] * b[2], a[2] * b[1])
    ELSE IF IsNaN(a) \/ IsNaN(b) THEN NaN
    ELSE IF IsFinite(a) THEN <<0, 1>>
    ELSE IF IsFinite(b) THEN <<a[1] * (IF b[1] < 0 THEN -1 ELSE 1), 0>>
    ELSE NaN

\* a <= b and a < b for finite a, b.
RLe(a, b) == a[1] * b[2] <= b[1] * a[2]

RLt(a, b) == a[1] * b[2] < b[1] * a[2]

RECURSIVE RSum(_, _)
\* The sum of f[i] over the finite set S of indices.
RSum(f, S) ==
    IF S = {} THEN <<0, 1>>
    ELSE LET i == CHOOSE j \in S : TRUE
         IN  RAdd(f[i], RSum(f, S \ {i}))

----------------------------------------------------------------------------
(* Two-dimensional arrays are sequences of rows.                           *)

Rows(a) == Len(a)

Cols(a) == Len(a[1])

Shape(a) == <<Rows(a), Cols(a)>>

Cells(a) == (1..Rows(a)) \X (1..Cols(a))

\* np.isfinite(field)
Mask(field) == [i \in 1..Rows(field) |-> [j \in 1..Cols(field) |-> IsFinite(field[i][j])]]

\* field[~mask] = 0.0
ZeroFill(field) ==
    [i \in 1..Rows(field) |-> [j \in 1..Cols(field) |->
        IF IsFinite(field[i][j]) THEN field[i][j] ELSE <<0, 1>>]]

\* mask.astype(float)
AsFloat(mask) ==
    [i \in 1..Len(mask) |-> [j \in 1..Len(mask[1]) |->
        IF mask[i][j] THEN <<1, 1>> ELSE <<0, 1>>]]

\* scipy.signal.convolve(in1, in2, mode="same"): the full linear convolution
\* full[i][j] = sum in1[a][b] * in2[i-a][j-b] (0-based, zero outside in1),
\* cut to the shape of in1 and centred: same[i][j] = full[i+(kh-1)/2][j+(kw-1)/2].
Convolve(in1, in2) ==
    LET offr == (Rows(in2) - 1) \div 2
        offc == (Cols(in2) - 1) \div 2
        term(i, j) == [c \in Cells(in1) |->
            LET kr == i - c[1] + offr + 1
                kc == j - c[2] + offc + 1
            IN  IF kr \in 1..Rows(in2) /\ kc \in 1..Cols(in2)
                THEN RMul(in1[c[1]][c[2]], in2[kr][kc])
                ELSE <<0, 1>>]
    IN  [i \in 1..Rows(in1) |-> [j \in 1..Cols(in1) |-> RSum(term(i, j), Cells(in1))]]

\* _masked_convolution without the division by the convolved mask.
MaskedConvolutionNoRenorm(field, kernel) ==
    LET mask == Mask(field)
        conv == Convolve(ZeroFill(field), kernel)
    IN  [i \in 1..Rows(field) |-> [j \in 1..Cols(field) |->
            IF mask[i][j] THEN conv[i][j] ELSE NaN]]

\* _masked_convolution without field[~mask] = 0.0.
MaskedConvolutionNoZeroFill(field, kernel) ==
    LET mask == Mask(field)
        conv == Convolve(field, kernel)
        norm == Convolve(AsFloat(mask), kernel)
    IN  [i \in 1..Rows(field) |-> [j \in 1..Cols(field) |->
            IF mask[i][j] THEN RDiv(conv[i][j], norm[i][j]) ELSE NaN]]

\* _masked_convolution(field, kernel)
MaskedConvolution(field, kernel) ==
    LET mask == Mask(field)
        conv == Convolve(ZeroFill(field), kernel)
        norm == Convolve(AsFloat(mask), kernel)
    IN  [i \in 1..Rows(field) |-> [j \in 1..Cols(field) |->
            IF mask[i][j] THEN RDiv(conv[i][j], norm[i][j]) ELSE NaN]]

----------------------------------------------------------------------------
(* Inputs of the masked convolution.                                       *)

\* Largest number of grid cells of a field.
MaxCells == 4

\* Largest sum of the integer weights a kernel is built from.
MaxMass == 3

\* Odd kernel extents, so that the kernel has a centre cell.
KernelSizes == {1, 3}

\* A cell is missing (nan) or holds one of two values.
FieldValues == {NaN, <<1, 1>>, <<2, 1>>}

GridShapes == {s \in (1..MaxCells) \X (1..MaxCells) : s[1] * s[2] <= MaxCells}

\* The fields of a shape; the first cell may also hold inf, the other
\* non-finite float.
Fields(h, w) ==
    LET F == [1..h -> [1..w -> FieldValues]]
    IN  F \cup {[f EXCEPT ![1][1] = Inf] : f \in F}

RECURSIVE WeightSeqs(_, _)
\* The sequences of n naturals whose sum is at most m.
WeightSeqs(n, m) ==
    IF n = 0 THEN {<<>>}
    ELSE UNION {{Append(s, k) : s \in WeightSeqs(n - 1, m - k)} : k \in 0..m}

\* The normalized kh x kw kernels with weights k/total, centre weight positive.
Kernels(kh, kw) ==
    LET centre == ((kh - 1) \div 2) * kw + (kw - 1) \div 2 + 1
        total(s) == RSum([i \in 1..(kh * kw) |-> <<s[i], 1>>], 1..(kh * kw))[1]
    IN  {[i \in 1..kh |-> [j \in 1..kw |-> Rat(s[(i - 1) * kw + j], total(s))]] :
            s \in {q \in WeightSeqs(kh * kw, MaxMass) : q[centre] >= 1}}

InitConv ==
    /\ pc = "call"
    /\ \E s \in GridShapes, kh \in KernelSizes, kw \in KernelSizes :
         \E field \in Fields(s[1], s[2]), kernel \in Kernels(kh, kw) :
            args = [field |-> field, kernel |-> kernel]
    /\ ret = None
    /\ input_fields = None
    /\ x = None

\* field_c = _masked_convolution(field, kernel)
CallMaskedConvolution ==
    /\ pc = "call"
    /\ ret' = MaskedConvolution(args.field, args.kernel)
    /\ pc' = "done"
    /\ UNCHANGED <<args, input_fields, x>>

NextConv == CallMaskedConvolution

SpecConv == InitConv /\ [][NextConv]_vars

----------------------------------------------------------------------------
(* Numbers that involve pi: c * pi^k with c rational.  An angle in degrees *)
(* has k = 0; phi / 180.0 * np.pi raises k by one.                         *)

PiNum(c, k) == IF c[1] = 0 THEN [c |-> <<0, 1>>, k |-> 0] ELSE [c |-> c, k |-> k]

\* phi / 180.0 * np.pi
ToRadians(phi) == PiNum(RDiv(phi.c, <<180, 1>>), phi.k + 1)

RECURSIVE RPow(_, _)
RPow(a, k) == IF k = 0 THEN <<1, 1>> ELSE RMul(a, RPow(a, k - 1))

\* The value of c * pi^k, with 22/7 for pi: the angles of the model are
\* either equal to pi/2 or 3 pi/2 or far from them.
Approx(a) == RMul(a.c, RPow(<<22, 7>>, a.k))

\* a > 1e-6 for a >= 0
AboveTolerance(a) == a[1] # 0 /\ a[2] \div a[1] < 1000000

RAbs(a) == <<Abs(a[1]), a[2]>>

RMin(a, b) == IF RLe(a, b) THEN a ELSE b

RMax(a, b) == IF RLe(a, b) THEN b ELSE a

\* int(v) of a finite float: truncation toward zero.
Trunc(v) == Sign(v[1]) * (Abs(v[1]) \div v[2])

\* len(np.arange(start, stop))
ArangeLen(start, stop) == IF stop > start THEN stop - start ELSE 0

\* The axis of a kernel with np.arange(int(b1), int(b2)) as its first range.
AxisLenDropOne(b1, b2) ==
    LET n == ArangeLen(Trunc(b1), Trunc(b2))
    IN  IF n % 2 = 0 THEN ArangeLen(Trunc(b1) - 1, Trunc(b2) + 1) ELSE n

\* x = np.arange(int(b1), int(b2) + 1); if len(x) % 2 == 0:
\*     x = np.arange(int(b1) - 1, int(b2) + 1)
AxisLen(b1, b2) ==
    LET n == ArangeLen(Trunc(b1), Trunc(b2) + 1)
    IN  IF n % 2 = 0 THEN ArangeLen(Trunc(b1) - 1, Trunc(b2) + 1) ELSE n

\* phi_r is a whole multiple of pi/2: sin and cos are 0 and +-1.
IsQuarterTurn(phi_r) == phi_r.k = 0 \/ (phi_r.k = 1 /\ RMul(phi_r.c, <<2, 1>>)[2] = 1)

\* The extents an ellipse with semi-axes r1, r2 takes at an oblique angle:
\* sqrt(r1^2 cos^2 + r2^2 sin^2) lies between the two semi-axes.
ObliqueExtents(r1, r2) ==
    LET lo == RMin(r1, r2)
        hi == RMax(r1, r2)
    IN  {lo, hi, RDiv(RAdd(RAdd(lo, lo), hi), <<3, 1>>)}

\* _compute_ellipse_bbox(phi, sigma1, sigma2, cutoff): the boxes
\* <<-|h|, -|w|, |h|, |w|>> the call can return.  At whole multiples of
\* pi/2 the trigonometry is exact; at 90 and 270 degrees the else branch runs.
ComputeEllipseBbox(phi, sigma1, sigma2, cutoff) ==
    LET r1 == RMul(cutoff, sigma1)
        r2 == RMul(cutoff, sigma2)
        phi_r == ToRadians(phi)
        half_pi == Approx(PiNum(<<1, 2>>, 1))
        three_half_pi == Approx(PiNum(<<3, 2>>, 1))
        general == /\ AboveTolerance(RAbs(RSub(Approx(phi_r), half_pi)))
                   /\ AboveTolerance(RAbs(RSub(Approx(phi_r), three_half_pi)))
        wh == IF general
              THEN IF IsQuarterTurn(phi_r)
                   THEN IF RMul(phi_r.c, <<2, 1>>)[1] % 2 = 0
                        THEN {<<r1, r2>>} ELSE {<<r2, r1>>}
                   ELSE ObliqueExtents(r1, r2) \X ObliqueExtents(r1, r2)
              ELSE {<<RMul(sigma2, cutoff), RMul(sigma1, cutoff)>>}
    IN  {<<RNeg(RAbs(e[2])), RNeg(RAbs(e[1])), RAbs(e[2]), RAbs(e[1])>> : e \in wh}

\* _compute_kernel_anisotropic(params, cutoff): the kernels the call can
\* return, each described by its shape X.shape = (len(y), len(x)), the angle
\* phi_r its grid is rotated by, its scales and its shape exponent.
ComputeKernelAnisotropic(params, cutoff) ==
    LET phi == params[1]
        sigma1 == RAbs(params[2])
        sigma2 == RAbs(params[3])
        phi_r == ToRadians(phi)
    IN  {[kind |-> "kernel", family |-> "anisotropic",
          shape |-> <<AxisLen(bb[1], bb[3]), AxisLen(bb[2], bb[4])>>,
          rot |-> phi_r, sigma1 |-> sigma1, sigma2 |-> sigma2, exponent |-> params[4]] :
            bb \in ComputeEllipseBbox(phi, sigma1, sigma2, cutoff)}

\* _compute_kernel_isotropic(params, cutoff)
ComputeKernelIsotropic(params, cutoff) ==
    LET sigma == params[1]
        bb_1 == RMul(RNeg(sigma), cutoff)
        bb_2 == RMul(sigma, cutoff)
    IN  [kind |-> "kernel", family |-> "isotropic",
         shape |-> <<AxisLen(bb_1, bb_2), AxisLen(bb_1, bb_2)>>,
         rot |-> PiNum(<<0, 1>>, 0), sigma1 |-> sigma, sigma2 |-> sigma,
         exponent |-> <<1, 1>>]

----------------------------------------------------------------------------
(* Inputs of the kernel builders.                                          *)

\* Scales are n/d with n and d up to these.
MaxScaleNum == 3

MaxScaleDen == 3

Scales == {Rat(n, d) : n \in 1..MaxScaleNum, d \in 1..MaxScaleDen}

\* cutoff=6.0
DefaultCutoff == 6

Cutoffs == {<<DefaultCutoff, 1>>, <<1, 2>>, <<5, 2>>}

\* Orientations in degrees.
Angles == {PiNum(<<d, 1>>, 0) : d \in {0, 30, 45, 90, 180, 270, -90}}

Exponents == {<<1, 1>>, <<1, 2>>}

InitKernel ==
    /\ pc = "call"
    /\ \E cutoff \in Cutoffs :
         \/ \E sigma \in Scales :
               args = [fn |-> "isotropic", params |-> <<sigma>>, cutoff |-> cutoff]
         \/ \E phi \in Angles, sigma1 \in Scales, sigma2 \in Scales, e \in Exponents :
               args = [fn |-> "anisotropic", params |-> <<phi, sigma1, sigma2, e>>,
                       cutoff |-> cutoff]
    /\ ret = None
    /\ input_fields = None
    /\ x = None

\* kernel = _compute_kernel_isotropic((sigma,), cutoff)
CallComputeKernelIsotropic ==
    /\ pc = "call"
    /\ args.fn = "isotropic"
    /\ ret' = ComputeKernelIsotropic(args.params, args.cutoff)
    /\ pc' = "done"
    /\ UNCHANGED <<args, input_fields, x>>

\* kernel = _compute_kernel_anisotropic(params, cutoff)
CallComputeKernelAnisotropic ==
    /\ pc = "call"
    /\ args.fn = "anisotropic"
    /\ ret' \in ComputeKernelAnisotropic(args.params, args.cutoff)
    /\ pc' = "done"
    /\ UNCHANGED <<args, input_fields, x>>

NextKernel == CallComputeKernelIsotropic \/ CallComputeKernelAnisotropic

SpecKernel == InitKernel /\ [][NextKernel]_vars

\* C4: with positive scales and a positive cutoff both kernel builders
\* return a kernel with an odd number of rows and an odd number of columns.
C4_OddKernelShape ==
    pc = "done" => (ret.shape[1] % 2 = 1 /\ ret.shape[2] % 2 = 1)

\* An anisotropic kernel at an oblique angle with fractional extents, more
\* columns than rows and more than one cell has been built.
C4_Witness ==
    /\ pc = "done"
    /\ args.fn = "anisotropic"
    /\ args.params[1] = PiNum(<<30, 1>>, 0)
    /\ ret.shape[1] >= 3
    /\ ret.shape[2] > ret.shape[1]

----------------------------------------------------------------------------
(* Window weights.  A weight is np.exp(v), kept as its argument v, or a    *)
(* literal float.                                                          *)

ExpOf(v) == [f |-> "exp", v |-> v]

Lit(v) == [f |-> "lit", v |-> v]

\* -dy * dy / (2 * r1 ** 2) - dx * dx / (2 * r2 ** 2)
GaussArg(dy, dx, r1, r2) ==
    RSub(RDiv(RMul(RNeg(dy), dy), RMul(<<2, 1>>, RMul(r1, r1))),
         RDiv(RMul(dx, dx), RMul(<<2, 1>>, RMul(r2, r2))))

\* The Gaussian weights of feature i over the whole grid.
GaussianWindow(coords, grid_height, grid_width, window_radii, i) ==
    LET c == <<RDiv(coords[i][1], <<grid_height, 1>>), RDiv(coords[i][2], <<grid_width, 1>>)>>
        window_radii_1 == RDiv(window_radii[i], <<grid_height, 1>>)
        window_radii_2 == RDiv(window_radii[i], <<grid_width, 1>>)
        grid_x == [k \in 1..grid_width |-> RDiv(Rat(2 * (k - 1) + 1, 2), <<grid_width, 1>>)]
        grid_y == [k \in 1..grid_height |-> RDiv(Rat(2 * (k - 1) + 1, 2), <<grid_height, 1>>)]
    IN  [r \in 1..grid_height |-> [q \in 1..grid_width |->
            ExpOf(GaussArg(RSub(c[1], grid_y[r]), RSub(c[2], grid_x[q]),
                           window_radii_1, window_radii_2))]]

\* _compute_window_weights without the branch for a single feature.
ComputeWindowWeightsAlwaysGaussian(coords, grid_height, grid_width, window_radii) ==
    [i \in 1..Len(coords) |->
        GaussianWindow(coords, grid_height, grid_width, window_radii, i)]

\* _compute_window_weights(coords, grid_height, grid_width, window_radii)
ComputeWindowWeights(coords, grid_height, grid_width, window_radii) ==
    LET num_features == Len(coords)
    IN  IF num_features > 1
        THEN [i \in 1..num_features |->
                GaussianWindow(coords, grid_height, grid_width, window_radii, i)]
        ELSE [i \in 1..num_features |->
                [r \in 1..grid_height |-> [q \in 1..grid_width |-> Lit(<<1, 1>>)]]]

\* Largest grid height and width.
MaxGrid == 3

\* Largest number of features.
MaxFeatures == 2

\* Window radii, in grid cells.
WindowRadii == {<<1, 1>>, <<2, 1>>}

\* Feature coordinates (row, column): any row, the first or the last column.
FeatureCoords(grid_height, grid_width) ==
    {<<<<r, 1>>, <<q, 1>>>> : r \in 0..(grid_height - 1), q \in {0, grid_width - 1}}

InitWeights ==
    /\ pc = "call"
    /\ \E grid_height \in 1..MaxGrid, grid_width \in 1..MaxGrid, n \in 1..MaxFeatures :
         \E coords \in [1..n -> FeatureCoords(grid_height, grid_width)],
            window_radii \in [1..n -> WindowRadii] :
            args = [coords |-> coords, grid_height |-> grid_height,
                    grid_width |-> grid_width, window_radii |-> window_radii]
    /\ ret = None
    /\ input_fields = None
    /\ x = None

\* window_weights = _compute_window_weights(feature_coords, m, n, window_radii)
CallComputeWindowWeights ==
    /\ pc = "call"
    /\ ret' = ComputeWindowWeights(args.coords, args.grid_height, args.grid_width,
                                   args.window_radii)
    /\ pc' = "done"
    /\ UNCHANGED <<args, input_fields, x>>

NextWeights == CallComputeWindowWeights

SpecWeights == InitWeights /\ [][NextWeights]_vars

\* The weight is exactly 1.0.
IsOne(v) == (v.f = "lit" /\ v.v = <<1, 1>>) \/ (v.f = "exp" /\ v.v = <<0, 1>>)

\* The weight lies in [0, 1]: exp(a) does for a <= 0, and exp(-inf) = 0.
InUnitInterval(v) ==
    IF v.f = "exp" THEN v.v = <<-1, 0>> \/ (IsFinite(v.v) /\ RLe(v.v, <<0, 1>>))
    ELSE RLe(<<0, 1>>, v.v) /\ RLe(v.v, <<1, 1>>)

\* v1 <= v2 for two Gaussian weights: exp is increasing.
WeightLe(v1, v2) == v1.f = "exp" /\ v2.f = "exp" /\ RLe(v1.v, v2.v)

\* The distance, in grid cells, of the centre of cell k from the coordinate.
AxisDistance(coord, k) == RAbs(RSub(coord, Rat(2 * k - 1, 2)))

\* C5: one weight array of the grid's shape per feature; all ones for a
\* single feature; for two or more features every weight is in [0,1] and,
\* along each grid axis, does not increase with the distance from the
\* feature's coordinate.
C5_WindowWeights ==
    pc = "done" =>
        LET n == Len(args.coords)
            H == args.grid_height
            W == args.grid_width
        IN  /\ Len(ret) = n
            /\ \A i \in 1..n : Len(ret[i]) = H /\ \A r \in 1..H : Len(ret[i][r]) = W
            /\ n = 1 => \A r \in 1..H, q \in 1..W : IsOne(ret[1][r][q])
            /\ n >= 2 => \A i \in 1..n :
                  /\ \A r \in 1..H, q \in 1..W : InUnitInterval(ret[i][r][q])
                  /\ \A r1 \in 1..H, r2 \in 1..H, q \in 1..W :
                        RLe(AxisDistance(args.coords[i][1], r1),
                            AxisDistance(args.coords[i][1], r2))
                        => WeightLe(ret[i][r2][q], ret[i][r1][q])
                  /\ \A q1 \in 1..W, q2 \in 1..W, r \in 1..H :
                        RLe(AxisDistance(args.coords[i][2], q1),
                            AxisDistance(args.coords[i][2], q2))
                        => WeightLe(ret[i][r][q2], ret[i][r][q1])

\* Two features with different radii on a 3 x 3 grid; the weights of the
\* first, which sits at the grid's corner, fall strictly along both axes.
C5_Witness ==
    /\ pc = "done"
    /\ Len(args.coords) = 2
    /\ args.grid_height = 3 /\ args.grid_width = 3
    /\ args.coords[1] = <<<<0, 1>>, <<0, 1>>>>
    /\ args.window_radii[1] # args.window_radii[2]
    /\ ~WeightLe(ret[1][1][1], ret[1][2][1])
    /\ ~WeightLe(ret[1][2][1], ret[1][3][1])
    /\ ~WeightLe(ret[1][1][2], ret[1][1][3])

----------------------------------------------------------------------------
(* The AR iteration.  A field is a sequence of cell values; the history    *)
(* buffer input_fields is a sequence of fields, oldest first.              *)

CellIds == {1, 2}

\* a * field, cell by cell
Scale(a, field) == [c \in DOMAIN field |-> RMul(a, field[c])]

\* field1 + field2, cell by cell
FieldAdd(field1, field2) == [c \in DOMAIN field1 |-> RAdd(field1[c], field2[c])]

RECURSIVE ArSum(_, _, _)
\* input_field_new after the first n rounds of
\*     input_field_new += psi[i] * input_fields[-(i + 1), :]
\* starting from input_field_new = 0.0
ArSum(fields, psi, n) ==
    IF n = 0 THEN [c \in DOMAIN fields[1] |-> <<0, 1>>]
    ELSE FieldAdd(ArSum(fields, psi, n - 1), Scale(psi[n], fields[Len(fields) - n + 1]))

\* _iterate_ar_model with psi[i] applied to input_fields[i], oldest first.
IterateArModelOldestFirst(fields, psi) ==
    LET new == [c \in DOMAIN fields[1] |->
                  RSum([i \in 1..Len(psi) |-> RMul(psi[i], fields[i][c])], 1..Len(psi))]
    IN  Append(Tail(fields), new)

\* _iterate_ar_model(input_fields, psi)
IterateArModel(fields, psi) ==
    Append(Tail(fields), ArSum(fields, psi, Len(psi)))

\* field_ar = p[0] * field_src[1] + p[1] * field_src[0] in the objective of
\* _optimize_ar2_params
Ar2FieldAr(p, field_src) == FieldAdd(Scale(p[1], field_src[2]), Scale(p[2], field_src[1]))

\* Longest history buffer.
MaxHistory == 3

\* Most applications of the AR model in one run.
MaxSteps == 3

PsiValues == {<<1, 2>>, <<-1, 1>>}

CellValues == {<<0, 1>>, <<1, 1>>}

InitIterate ==
    /\ pc = "loop"
    /\ \E L \in 1..MaxHistory :
         /\ input_fields \in [1..L -> [CellIds -> CellValues]]
         /\ \E n \in 1..L : \E psi \in [1..n -> PsiValues] : args = [psi |-> psi, t |-> 0]
    /\ ret = None
    /\ x = None

\* input_fields = _iterate_ar_model(input_fields, psi)
CallIterateArModel ==
    /\ pc = "loop"
    /\ args.t < MaxSteps
    /\ input_fields' = IterateArModel(input_fields, args.psi)
    /\ args' = [args EXCEPT !.t = @ + 1]
    /\ UNCHANGED <<pc, ret, x>>

NextIterate == CallIterateArModel

SpecIterate == InitIterate /\ [][NextIterate]_vars

\* The (i+1)-th most recent field of the buffer, i = 0 for the newest.
Recent(fields, i) == fields[Len(fields) - i]

\* C9: an application of _iterate_ar_model keeps the number of fields, drops
\* the oldest field, shifts the others one place toward the oldest end and
\* appends sum_i psi[i] * (the (i+1)-th most recent old field), the
\* coefficient-to-lag assignment of the AR(2) fitter's objective.
C9_IterateShifts ==
    [][LET L == Len(input_fields)
           psi == args.psi
       IN  /\ Len(input_fields') = L
           /\ \A k \in 1..(L - 1) : input_fields'[k] = input_fields[k + 1]
           /\ \A c \in CellIds :
                 input_fields'[L][c] =
                    RSum([i \in 0..(Len(psi) - 1) |->
                            RMul(psi[i + 1], Recent(input_fields, i)[c])],
                         0..(Len(psi) - 1))
           /\ Len(psi) = 2 =>
                 input_fields'[L] =
                    Ar2FieldAr(psi, <<Recent(input_fields, 1), Recent(input_fields, 0)>>)
      ]_vars

\* After two applications with two different coefficients the buffer of
\* three fields holds a newest field that differs in its two cells.
C9_Witness ==
    /\ pc = "loop"
    /\ args.t = 2
    /\ Len(args.psi) = 2
    /\ args.psi[1] # args.psi[2]
    /\ Len(input_fields) = 3
    /\ input_fields[3][1] # input_fields[3][2]
    /\ input_fields[3] # input_fields[2]

----------------------------------------------------------------------------
(* The AR(1) fitter.                                                       *)

\* np.nansum over the cells of a field
NanSum(field) ==
    LET F == {c \in DOMAIN field : ~IsNaN(field[c])}
    IN  RSum([c \in F |-> field[c]], F)

\* objf of _optimize_ar1_params:
\*     np.nansum(weights * (field_dst - p * field_src[0]) ** 2.0)
Ar1Objf(p, field_src, field_dst, weights) ==
    NanSum([c \in DOMAIN field_dst |->
        LET r == RSub(field_dst[c], RMul(p, field_src[1][c]))
        IN  RMul(weights[c], RMul(r, r))])

\* bounds = (-0.98, 0.98), in hundredths
Ar1Bound == 98

\* The coefficients the bounded scalar search can stop at.
Ar1Candidates ==
    {Rat(-Ar1Bound, 100), <<-1, 2>>, <<-3, 10>>, <<0, 1>>, <<1, 2>>, Rat(Ar1Bound, 100)}

\* minimize_scalar(objf, method="bounded", bounds=bounds).x: a minimizer of
\* objf within the bounds; where objf is flat the search stops anywhere.
OptimizeAr1Params(field_src, field_dst, weights) ==
    {p \in Ar1Candidates :
        \A q \in Ar1Candidates :
            LET fp == Ar1Objf(p, field_src, field_dst, weights)
                fq == Ar1Objf(q, field_src, field_dst, weights)
            IN  (IsFinite(fp) /\ IsFinite(fq)) => RLe(fp, fq)}

Ar1FieldValues == {NaN, <<0, 1>>, <<1, 1>>, <<2, 1>>}

Ar1TargetValues == {NaN, <<0, 1>>, <<1, 2>>, <<-3, 10>>, <<1, 1>>}

Ar1Weights == {<<0, 1>>, <<1, 1>>, <<1, 2>>}

InitAr1 ==
    /\ pc = "call"
    /\ \E src \in [CellIds -> Ar1FieldValues], dst \in [CellIds -> Ar1TargetValues],
          weights \in [CellIds -> Ar1Weights] :
          args = [field_src |-> <<src>>, field_dst |-> dst, weights |-> weights]
    /\ ret = None
    /\ input_fields = None
    /\ x = None

\* p = _optimize_ar1_params(field_src, field_dst, weights)
CallOptimizeAr1Params ==
    /\ pc = "call"
    /\ \E p \in OptimizeAr1Params(args.field_src, args.field_dst, args.weights) :
          ret' = [kind |-> "float", val |-> p]
    /\ pc' = "done"
    /\ UNCHANGED <<args, input_fields, x>>

NextAr1 == CallOptimizeAr1Params

SpecAr1 == InitAr1 /\ [][NextAr1]_vars

\* No cell enters the AR(1) objective: the source or the target is
\* non-finite, or the weight is not above 1e-3, at every cell.
NoValidSample ==
    \A c \in CellIds :
        \/ ~IsFinite(args.field_src[1][c])
        \/ ~IsFinite(args.field_dst[c])
        \/ ~RLt(<<1, 1000>>, args.weights[c])

\* C8: a fitter whose masked objective has no valid finite sample reports a
\* fit-unavailable outcome instead of a coefficient.
C8_FitUnavailableReported ==
    (pc = "done" /\ NoValidSample) => ret.kind = "fit_unavailable"

----------------------------------------------------------------------------
(* The AR(2) fitter: minimize(objf, (0.8, 0.0), method="trust-constr",     *)
(* bounds=bounds, constraints=constraints).  Coefficients are in           *)
(* hundredths.  The optimizer is modelled by its contract: it refuses a    *)
(* start point that violates a keep_feasible constraint, every iterate     *)
(* satisfies the keep_feasible constraints, and it returns its last        *)
(* iterate whether it converged or ran out of iterations.                  *)

\* (0.8, 0.0)
Ar2X0 == <<80, 0>>

\* bounds = [(-1.98, 1.98), (-0.98, 0.98)]
Ar2Bounds == <<<<-198, 198>>, <<-98, 98>>>>

\* np.array([(1, 1), (1, -1)])
Ar2ConstraintAFlipped == <<<<1, 1>>, <<1, -1>>>>

\* np.array([(1, 1), (-1, 1)])
Ar2ConstraintA == <<<<1, 1>>, <<-1, 1>>>>

\* (0.98, 0.98); the lower limits are -np.inf
Ar2ConstraintUb == <<98, 98>>

\* keep_feasible=True
Ar2KeepFeasible == TRUE

\* A p <= ub
Ar2Feasible(p) ==
    \A r \in 1..2 :
        Ar2ConstraintA[r][1] * p[1] + Ar2ConstraintA[r][2] * p[2]
            <= Ar2ConstraintUb[r]

\* The points the optimizer can visit; the box, which is not keep_feasible,
\* can be overshot.
Ar2Grid == {-205, -198, -100, -49, 0, 49, 80, 98, 100, 198, 205}
              \X {-105, -98, -50, 0, 50, 98, 105}

\* Most iterations of the optimizer (maxiter).
MaxIter == 2

InitAr2 ==
    /\ pc = "start"
    /\ args = [nit |-> 0]
    /\ x = Ar2X0
    /\ ret = None
    /\ input_fields = None

\* minimize() checks the start point against the keep_feasible constraints.
Ar2Start ==
    /\ pc = "start"
    /\ IF Ar2KeepFeasible /\ ~Ar2Feasible(x)
       THEN pc' = "done" /\ ret' = [kind |-> "ValueError", x |-> x, converged |-> FALSE]
       ELSE pc' = "iterating" /\ ret' = ret
    /\ UNCHANGED <<args, input_fields, x>>

\* One iteration of trust-constr.
Ar2Iterate ==
    /\ pc = "iterating"
    /\ args.nit < MaxIter
    /\ \E p \in Ar2Grid :
          /\ Ar2KeepFeasible => Ar2Feasible(p)
          /\ x' = p
    /\ args' = [args EXCEPT !.nit = @ + 1]
    /\ UNCHANGED <<pc, ret, input_fields>>

\* return p_opt.x, after convergence or at the iteration limit
Ar2Return ==
    /\ pc = "iterating"
    /\ \E converged \in BOOLEAN :
          /\ ~converged => args.nit = MaxIter
          /\ ret' = [kind |-> "x", x |-> x, converged |-> converged]
    /\ pc' = "done"
    /\ UNCHANGED <<args, input_fields, x>>

NextAr2 == Ar2Start \/ Ar2Iterate \/ Ar2Return

SpecAr2 == InitAr2 /\ [][NextAr2]_vars

\* C7: the start point (0.8, 0.0) satisfies both inequalities and the box
\* bounds, and every returned pair satisfies p0 + p1 <= 0.98 and
\* p1 - p0 <= 0.98, also when the optimizer did not converge.
C7_Ar2Feasible ==
    /\ pc = "start" =>
          /\ x[1] + x[2] <= 98 /\ x[2] - x[1] <= 98
          /\ -198 <= x[1] /\ x[1] <= 198 /\ -98 <= x[2] /\ x[2] <= 98
    /\ pc = "done" =>
          /\ ret.kind = "x"
          /\ ret.x[1] + ret.x[2] <= 98
          /\ ret.x[2] - ret.x[1] <= 98

\* The optimizer stopped at the iteration limit, away from the start point,
\* on the edge of the stationarity triangle.
C7_Witness ==
    /\ pc = "done"
    /\ ~ret.converged
    /\ ret.x # Ar2X0
    /\ ret.x[1] + ret.x[2] = 98

----------------------------------------------------------------------------
(* The kernel fitter _optimize_convol_params.  x is the optimizer's        *)
(* current point, an array of four raw parameters (anisotropic) or a       *)
(* scalar (isotropic); args.kernel is the kernel the last evaluation of    *)
(* objf built.                                                             *)

RECURSIVE ISqrtIn(_, _, _)
\* The largest r in lo..hi with r * r <= v.
ISqrtIn(v, lo, hi) ==
    IF lo = hi THEN lo
    ELSE LET mid == (lo + hi + 1) \div 2
         IN  IF mid * mid <= v THEN ISqrtIn(v, mid, hi) ELSE ISqrtIn(v, lo, mid - 1)

\* np.sqrt of a non-negative number, to three decimals (exact for squares).
RSqrt(a) == Rat(ISqrtIn(a[1] * a[2] * 1000000, 0, a[1] * a[2] * 1000 + 1000), a[2] * 1000)

\* np.arctan2(y, x) in radians, for vectors along the axes and diagonals.
ArcTan2(y, x0) ==
    LET sy == Sign(y[1])
        sx == Sign(x0[1])
        quarter == IF sx = 1 /\ sy = 0 THEN 0
                   ELSE IF sx = 1 /\ sy = 1 THEN 1
                   ELSE IF sx = 0 /\ sy = 1 THEN 2
                   ELSE IF sx = -1 /\ sy = 1 THEN 3
                   ELSE IF sx = -1 /\ sy = 0 THEN 4
                   ELSE IF sx = -1 /\ sy = -1 THEN -3
                   ELSE IF sx = 0 /\ sy = -1 THEN -2
                   ELSE IF sx = 1 /\ sy = -1 THEN -1
                   ELSE 0
    IN  PiNum(Rat(quarter, 4), 1)

\* _get_anisotropic_kernel_params(p)
GetAnisotropicKernelParams(p) ==
    LET theta == ArcTan2(p[2], p[1])
        sigma1 == RSqrt(RAdd(RMul(p[1], p[1]), RMul(p[2], p[2])))
        sigma2 == RMul(sigma1, p[3])
    IN  <<theta, sigma1, sigma2, p[4]>>

Array(v) == [type |-> "array", v |-> v]

Scalar(v) == [type |-> "scalar", v |-> v]

\* A call _compute_kernel_anisotropic(p, **kernel_params): params[:3] needs
\* a sequence; a float raises.
CallKernelAnisotropic(p, cutoff) ==
    IF p.type = "array" THEN ComputeKernelAnisotropic(p.v, cutoff)
    ELSE {[kind |-> "exception", family |-> "none", shape |-> <<0, 0>>,
           rot |-> PiNum(<<0, 1>>, 0), sigma1 |-> p.v, sigma2 |-> p.v,
           exponent |-> <<0, 1>>]}

\* The kernels objf(p) can build.
ObjfKernel(kernel_type, p, cutoff) ==
    IF kernel_type = "anisotropic"
    THEN CallKernelAnisotropic(Array(GetAnisotropicKernelParams(p.v)), cutoff)
    ELSE {ComputeKernelIsotropic(<<p.v>>, cutoff)}

\* The kernel _optimize_convol_params would return if it built the kernel
\* of the requested family.
FinalKernelOfFamily(kernel_type, p, cutoff) ==
    IF kernel_type = "anisotropic"
    THEN CallKernelAnisotropic(Array(GetAnisotropicKernelParams(p.v)), cutoff)
    ELSE {ComputeKernelIsotropic(<<p.v>>, cutoff)}

\* Lines 348-373: p_opt is converted for the anisotropic family and is the
\* scalar p_opt.x otherwise; the kernel is built by
\* _compute_kernel_anisotropic(p_opt, **kernel_params) in both cases.
FinalKernel(kernel_type, p, cutoff) ==
    IF kernel_type = "anisotropic"
    THEN CallKernelAnisotropic(Array(GetAnisotropicKernelParams(p.v)), cutoff)
    ELSE CallKernelAnisotropic(Scalar(p.v), cutoff)

\* np.array((1.0, 1.0, 1.0, 1.0))
ConvolX0 == Array(<<<<1, 1>>, <<1, 1>>, <<1, 1>>, <<1, 1>>>>)

\* Largest length of the raw vector (p0, p1) along an axis; the bounds
\* (-10.0, 10.0) allow up to 10.
MaxRaw == 2

RawDirections == {d \in {-1, 0, 1} \X {-1, 0, 1} : d # <<0, 0>>}

\* Points within bounds (-10, 10), (-10, 10), (0.25, 4.0), (0.1, 5.0).
AnisotropicPoints ==
    {Array(<<<<d[1] * m, 1>>, <<d[2] * m, 1>>, a, e>>) :
        d \in RawDirections, m \in 1..MaxRaw,
        a \in {<<1, 1>>, <<4, 1>>}, e \in {<<1, 1>>, <<5, 1>>}}

\* Points within bounds=[0.01, 10.0].
IsotropicPoints == {Scalar(v) : v \in {<<1, 100>>, <<1, 2>>, <<1, 1>>, <<3, 1>>, <<10, 1>>}}

Points(kernel_type) ==
    IF kernel_type = "anisotropic" THEN AnisotropicPoints ELSE IsotropicPoints

InitConvol ==
    /\ pc = "start"
    /\ \E kernel_type \in {"anisotropic", "isotropic"}, method \in {"trf", "lbfgsb"},
          cutoff \in {<<DefaultCutoff, 1>>, <<5, 2>>} :
          args = [kernel_type |-> kernel_type, method |-> method, cutoff |-> cutoff,
                  kernel |-> None]
    /\ x = None
    /\ ret = None
    /\ input_fields = None

\* The optimizer evaluates objf at its first point.
ConvolStart ==
    /\ pc = "start"
    /\ \E p \in IF args.kernel_type = "anisotropic" THEN {ConvolX0} ELSE IsotropicPoints :
          /\ x' = p
          /\ \E k \in ObjfKernel(args.kernel_type, p, args.cutoff) :
                args' = [args EXCEPT !.kernel = k]
    /\ pc' = "optimizing"
    /\ UNCHANGED <<ret, input_fields>>

\* The optimizer moves to another point within the bounds and evaluates objf.
ConvolEvaluate ==
    /\ pc = "optimizing"
    /\ \E p \in Points(args.kernel_type) :
          /\ x' = p
          /\ \E k \in ObjfKernel(args.kernel_type, p, args.cutoff) :
                args' = [args EXCEPT !.kernel = k]
    /\ UNCHANGED <<pc, ret, input_fields>>

\* The optimizer stops at x; the kernel is built and returned, or the call
\* raises.
ConvolReturn ==
    /\ pc = "optimizing"
    /\ ret' \in FinalKernel(args.kernel_type, x, args.cutoff)
    /\ pc' = "done"
    /\ UNCHANGED <<args, input_fields, x>>

NextConvol == ConvolStart \/ ConvolEvaluate \/ ConvolReturn

SpecConvol == InitConvol /\ [][NextConvol]_vars

\* C6: _optimize_convol_params returns the kernel of the requested family
\* built from the fitted parameters, the isotropic kernel of a sigma in
\* [0.01, 10.0] or the anisotropic kernel of the converted parameters, and
\* does not fail while building it.
C6_ReturnsKernelOfFamily ==
    pc = "done" =>
        /\ ret.kind = "kernel"
        /\ ret.family = args.kernel_type
        /\ ret \in FinalKernelOfFamily(args.kernel_type, x, args.cutoff)
        /\ args.kernel_type = "isotropic" =>
              (RLe(<<1, 100>>, ret.sigma1) /\ RLe(ret.sigma1, <<10, 1>>))

\* The angle of the vector (p0, p1), in radians.
VectorAngle(p) == ArcTan2(p.v[2], p.v[1])

\* C10: in the anisotropic fit the kernel built for raw parameters
\* (p0, p1, aspect, shape) is rotated by the angle of the vector (p0, p1),
\* inside the objective and for the returned kernel.
C10_RotatedByVectorAngle ==
    (args.kernel_type = "anisotropic" /\ pc \in {"optimizing", "done"}) =>
        /\ args.kernel.rot = VectorAngle(x)
        /\ pc = "done" => ret.rot = VectorAngle(x)

----------------------------------------------------------------------------
(* The entry point forecast.  Its body is three statements; a statement    *)
(* reads names in evaluation order and may bind one.  A name is resolved   *)
(* among the function's parameters, the names bound so far and the         *)
(* module's globals, and a name found in none of them raises NameError.    *)

ForecastParameters ==
    {"precip_fields", "advection_field", "num_timesteps", "ari_order",
     "add_perturbations", "num_ens_members", "feature_method", "feature_kwargs",
     "kernel_type", "interp_window_radius", "extrap_method", "extrap_kwargs",
     "num_workers"}

ModuleGlobals ==
    {"DASK_IMPORTED", "np", "least_squares", "LinearConstraint", "minimize",
     "minimize_scalar", "convolve", "extrapolation", "utils", "forecast",
     "_compute_kernel_anisotropic", "_compute_kernel_isotropic",
     "_compute_ellipse_bbox", "_compute_window_weights",
     "_get_anisotropic_kernel_params", "_iterate_ar_model", "_masked_convolution",
     "_optimize_ar1_params", "_optimize_ar2_params", "_optimize_convol_params"}

Builtins == {"range"}

ForecastBody ==
    <<[reads |-> <<"np", "num_features", "precip_fields">>,
       binds |-> "localized_nowcasts", loop |-> FALSE],
      [reads |-> <<"_compute_window_weights", "feature_coords", "precip_fields",
                   "window_radii">>,
       binds |-> "window_weights", loop |-> FALSE],
      [reads |-> <<"range", "num_timesteps", "np", "window_weights",
                   "localized_nowcasts">>,
       binds |-> "t", loop |-> TRUE]>>

\* The first name of reads that is not in bound, or "" when all are.
FirstUnbound(reads, bound) ==
    LET missing == {i \in 1..Len(reads) : reads[i] \notin bound}
    IN  IF missing = {} THEN ""
        ELSE reads[CHOOSE i \in missing : \A j \in missing : i <= j]

RECURSIVE RunForecast(_, _, _, _)
\* The outcome of running the statements from the k-th on: the exception
\* raised, or the value returned with the number of loop passes made.  The
\* body has no return statement, so a completed call returns None.
RunForecast(k, bound, passes, a) ==
    IF k > Len(ForecastBody)
    THEN [kind |-> "None", name |-> "", shape |-> <<>>, transitions |-> passes]
    ELSE LET st == ForecastBody[k]
             missing == FirstUnbound(st.reads, bound)
         IN  IF missing # ""
             THEN [kind |-> "NameError", name |-> missing, shape |-> <<>>,
                   transitions |-> passes]
             ELSE RunForecast(k + 1, bound \cup {st.binds},
                              IF st.loop THEN passes + a.num_timesteps ELSE passes, a)

\* Most forecast timesteps.
MaxTimesteps == 3

\* Most ensemble members.
MaxMembers == 3

InitForecast ==
    /\ pc = "call"
    /\ \E ari_order \in {1, 2}, num_timesteps \in 1..MaxTimesteps,
          num_ens_members \in 1..MaxMembers, m \in 1..MaxGrid, n \in 1..MaxGrid,
          add_perturbations \in BOOLEAN :
          args = [precip_fields_shape |-> <<ari_order + 2, m, n>>,
                  ari_order |-> ari_order, num_timesteps |-> num_timesteps,
                  num_ens_members |-> num_ens_members,
                  add_perturbations |-> add_perturbations]
    /\ ret = None
    /\ input_fields = None
    /\ x = None

\* out = forecast(precip_fields, advection_field, num_timesteps, ...)
CallForecast ==
    /\ pc = "call"
    /\ ret' = RunForecast(1, ForecastParameters \cup ModuleGlobals \cup Builtins, 0, args)
    /\ pc' = "done"
    /\ UNCHANGED <<args, input_fields, x>>

NextForecast == CallForecast

SpecForecast == InitForecast /\ [][NextForecast]_vars

\* C1: for valid input forecast makes num_timesteps transitions per
\* ensemble member and returns an array of shape
\* (num_ens_members, num_timesteps, m, n); it never ends in an error or
\* returns nothing.
C1_ForecastReturnsEnsemble ==
    pc = "done" =>
        /\ ret.kind = "ndarray"
        /\ ret.shape = <<args.num_ens_members, args.num_timesteps,
                         args.precip_fields_shape[2], args.precip_fields_shape[3]>>
        /\ ret.transitions = args.num_ens_members * args.num_timesteps

----------------------------------------------------------------------------
(* Claims about the masked convolution.                                    *)

\* The weight the kernel gives, at output position p, to the grid cell c:
\* a convolution weighs the neighbour at offset c - p with the kernel entry
\* at the opposite offset from the kernel's centre; cells the kernel does not
\* reach weigh 0.
NeighbourWeight(kernel, p, c) ==
    LET kr == (Rows(kernel) + 1) \div 2 - (c[1] - p[1])
        kc == (Cols(kernel) + 1) \div 2 - (c[2] - p[2])
    IN  IF kr \in 1..Rows(kernel) /\ kc \in 1..Cols(kernel)
        THEN kernel[kr][kc] ELSE <<0, 1>>

FiniteCells(field) == {c \in Cells(field) : IsFinite(field[c[1]][c[2]])}

\* The kernel-weighted average of the finite grid cells around p.
FiniteAverage(field, kernel, p) ==
    LET F == FiniteCells(field)
    IN  RDiv(RSum([c \in F |-> RMul(NeighbourWeight(kernel, p, c), field[c[1]][c[2]])], F),
             RSum([c \in F |-> NeighbourWeight(kernel, p, c)], F))

\* C2: the masked convolution keeps the shape of the field; a position that
\* was non-finite in the input is non-finite in the output, and a finite one
\* holds the kernel-weighted average of its finite neighbours inside the grid.
C2_MaskedAverage ==
    pc = "done" =>
        /\ Shape(ret) = Shape(args.field)
        /\ \A c \in Cells(args.field) :
              IF IsFinite(args.field[c[1]][c[2]])
              THEN ret[c[1]][c[2]] = FiniteAverage(args.field, args.kernel, c)
              ELSE ~IsFinite(ret[c[1]][c[2]])

\* A 2 x 2 field with a missing cell and two different finite values has been
\* convolved with a 3 x 3 kernel that reaches the missing cell.
C2_Witness ==
    /\ pc = "done"
    /\ Shape(args.field) = <<2, 2>>
    /\ Shape(args.kernel) = <<3, 3>>
    /\ ~IsFinite(args.field[1][1])
    /\ args.field[1][2] # args.field[2][1]
    /\ IsFinite(args.field[1][2]) /\ IsFinite(args.field[2][1])
    /\ args.kernel[3][3] # <<0, 1>>
    /\ ret[1][2] # args.field[1][2]

AllFinite(field) == FiniteCells(field) = Cells(field)

\* The share of the kernel's mass that falls on cells inside the grid at p.
InsideMass(field, kernel, p) ==
    RSum([c \in Cells(field) |-> NeighbourWeight(kernel, p, c)], Cells(field))

\* C3 as stated: on a field without missing values the masked convolution
\* equals the plain zero-padded convolution at every position.
C3_EqualsPlainEverywhere ==
    (pc = "done" /\ AllFinite(args.field)) =>
        ret = Convolve(args.field, args.kernel)

\* C3 as amended: on a field without missing values the masked convolution
\* equals the plain zero-padded convolution divided by the kernel mass that
\* falls inside the grid; the two agree where that mass is 1.
C3_EqualsPlainOverInsideMass ==
    (pc = "done" /\ AllFinite(args.field)) =>
        LET plain == Convolve(args.field, args.kernel)
        IN  \A c \in Cells(args.field) :
               LET mass == InsideMass(args.field, args.kernel, c)
               IN  /\ ret[c[1]][c[2]] = RDiv(plain[c[1]][c[2]], mass)
                   /\ mass = <<1, 1>> => ret[c[1]][c[2]] = plain[c[1]][c[2]]

\* A field without missing values has been convolved; at one position the
\* kernel lies inside the grid, at another part of its mass falls outside.
C3_Witness ==
    /\ pc = "done"
    /\ AllFinite(args.field)
    /\ \E c \in Cells(args.field) :
          /\ InsideMass(args.field, args.kernel, c) = <<1, 1>>
          /\ Shape(args.kernel) # <<1, 1>>
    /\ \E c \in Cells(args.field) :
          /\ InsideMass(args.field, args.kernel, c) # <<1, 1>>
          /\ ret[c[1]][c[2]] # Convolve(args.field, args.kernel)[c[1]][c[2]]

====
